---- MODULE Spec2Model ----
(***************************************************************************)
(* Model of src/source.rs (duvet): SourceFile::annotations, the three      *)
(* into_annotation conversions of a declaration document, and the quote    *)
(* normalizer normalize_quote.                                             *)
(*                                                                         *)
(* Text that passes through the normalizer (quote, comment, reason) is a   *)
(* sequence of one-character strings.  Opaque text (targets, paths,        *)
(* labels, feature, tracking issue, tags) is a TLA+ string.  Option<T> is  *)
(* the empty set (None) or a singleton (Some(x)).  Result<T, Error> is a   *)
(* record [ok |-> TRUE, val |-> v] or [ok |-> FALSE, err |-> e].           *)
(***************************************************************************)
EXTENDS Integers, Sequences, FiniteSets, TLC

VARIABLES
    unit,         \* variant of the SourceFile: "Text" or "Spec"
    file,         \* the PathBuf held by the SourceFile
    disk,         \* what the file system and the TOML parser give for file
    pc,           \* position inside SourceFile::annotations
    specs,        \* `specs`: the parsed Specs document (Option)
    idx,          \* position of the running `for` loop in its list
    annotations,  \* `annotations`: the local AnnotationSet
    anno,         \* `anno`: the entry of the current loop iteration (Option)
    ret,          \* value of the last into_annotation call (Option)
    result,       \* value returned by SourceFile::annotations (Option)
    s,            \* argument of normalize_quote
    out,          \* normalize_quote(s)
    out2,         \* normalize_quote(normalize_quote(s))
    npc           \* position of the normalizer driver

vars == <<unit, file, disk, pc, specs, idx, annotations, anno, ret, result,
          s, out, out2, npc>>

fileVars == <<unit, file, disk, pc, specs, idx, annotations, anno, ret, result>>
normVars == <<s, out, out2, npc>>

(***************************************************************************)
(* Bounds                                                                  *)
(***************************************************************************)
\* longest argument of normalize_quote that is enumerated
MaxLen == 5
\* largest total number of entries of a declaration document
MaxEntries == 2

(***************************************************************************)
(* Option and Result                                                       *)
(***************************************************************************)
None == {}
Some(x) == {x}
Unwrap(o) == CHOOSE x \in o : TRUE

Ok(v) == [ok |-> TRUE, val |-> v]
Err(e) == [ok |-> FALSE, err |-> e]

\* anyhow!(msg), or the conversion `?` makes of a foreign error: no context
Anyhow(msg) == [msg |-> msg, context |-> <<>>]
\* .with_context(|| c) on an Err
WithContext(r, c) ==
    IF r.ok THEN r
    ELSE Err([msg |-> r.err.msg, context |-> <<c>> \o r.err.context])

(***************************************************************************)
(* Characters and strings                                                  *)
(***************************************************************************)
Chars == {"A", "B", " ", "\n", "\r"}
\* the characters of Chars that char::is_whitespace accepts
Whitespace == {" ", "\n", "\r"}

Strings(n) == UNION {[1..k -> Chars] : k \in 0..n}

\* str::strip_suffix for a one-character suffix, None mapped to the input
StripSuffix(l, c) ==
    IF Len(l) > 0 /\ l[Len(l)] = c THEN SubSeq(l, 1, Len(l) - 1) ELSE l

\* index of the first "\n" at or after i, Len(t) + 1 when there is none
RECURSIVE FirstNewline(_, _)
FirstNewline(t, i) ==
    IF i > Len(t) THEN i
    ELSE IF t[i] = "\n" THEN i
    ELSE FirstNewline(t, i + 1)

\* str::lines: split_inclusive('\n'), then strip one "\n" and, only when
\* a "\n" was stripped, one "\r"
RECURSIVE Lines(_)
Lines(t) ==
    IF t = <<>> THEN <<>>
    ELSE LET n == FirstNewline(t, 1) IN
         IF n > Len(t) THEN <<t>>
         ELSE <<StripSuffix(SubSeq(t, 1, n - 1), "\r")>>
                  \o Lines(SubSeq(t, n + 1, Len(t)))

RECURSIVE TrimStart(_)
TrimStart(l) ==
    IF l # <<>> /\ l[1] \in Whitespace THEN TrimStart(Tail(l)) ELSE l

RECURSIVE TrimEnd(_)
TrimEnd(l) ==
    IF l # <<>> /\ l[Len(l)] \in Whitespace
    THEN TrimEnd(SubSeq(l, 1, Len(l) - 1))
    ELSE l

\* str::trim
Trim(l) == TrimEnd(TrimStart(l))

\* a fold closure that pushes the separator whenever the accumulator is
\* non-empty, blank line or not
FoldStepNoBlankCheck(acc, l) ==
    LET t == Trim(l) IN
    (IF acc # <<>> THEN acc \o <<" ">> ELSE acc) \o t

\* a fold closure that pushes the line without trimming it
FoldStepNoTrim(acc, l) ==
    (IF l # <<>> /\ acc # <<>> THEN acc \o <<" ">> ELSE acc) \o l

\* the closure handed to fold in normalize_quote
FoldStep(acc, l) ==
    LET t == Trim(l) IN
    (IF t # <<>> /\ acc # <<>> THEN acc \o <<" ">> ELSE acc) \o t

\* Iterator::fold over a sequence of lines
RECURSIVE Fold(_, _)
Fold(ls, acc) ==
    IF ls = <<>> THEN acc ELSE Fold(Tail(ls), FoldStep(acc, Head(ls)))

normalize_quote(t) == Fold(Lines(t), <<>>)

(***************************************************************************)
(* Driver of the normalizer: one argument from the bounded strings, the    *)
(* function applied to it, then applied to its own result.                 *)
(***************************************************************************)
Normalize ==
    /\ npc = "start"
    /\ out' = Some(normalize_quote(s))
    /\ npc' = "normalized"
    /\ UNCHANGED <<s, out2>>
    /\ UNCHANGED fileVars

Renormalize ==
    /\ npc = "normalized"
    /\ out2' = Some(normalize_quote(Unwrap(out)))
    /\ npc' = "done"
    /\ UNCHANGED <<s, out>>
    /\ UNCHANGED fileVars

(***************************************************************************)
(* The declaration document (struct Specs and its entries)                 *)
(***************************************************************************)
Paths == {"a.toml", "dir/b.toml"}

\* values of an entry's `target` and of the document's `target`
OptTargets == {None, Some(""), Some("x")}
DocTargets == {None, Some(""), Some("doc.txt")}

\* values of `quote`
Quotes == {<<" ", "\n">>, <<" ", "A", "\n", "B">>}
\* values of `reason`
Reasons == {<<"B", " ">>}

\* labels AnnotationLevel::from_str and Format::from_str accept
LevelLabels == {"MUST"}
FormatLabels == {"IETF"}
\* (level, format) of a citation entry that declares one of them
LevelFormats ==
    {<<Some("MUST"), Some("IETF")>>, <<Some("bogus"), Some("IETF")>>,
     <<Some("MUST"), Some("bogus")>>}

\* struct Spec: entries without level and format over every quote, entries
\* with labels over one quote
SpecEntries ==
    {[target |-> t, level |-> None, format |-> None, quote |-> q] :
        t \in OptTargets, q \in Quotes}
    \cup
    {[target |-> t, level |-> lf[1], format |-> lf[2],
      quote |-> <<" ", "A", "\n", "B">>] :
        t \in OptTargets, lf \in LevelFormats}

\* struct Exception
ExceptionEntries == [target : OptTargets, quote : Quotes, reason : Reasons]

\* struct Todo: entries with every optional field absent over every quote,
\* entries with the optional fields present over one quote
TodoEntries ==
    {[target |-> t, quote |-> q, feature |-> None, tracking_issue |-> None,
      reason |-> None, tags |-> {}] :
        t \in OptTargets, q \in Quotes}
    \cup
    {[target |-> t, quote |-> <<" ", "A", "\n", "B">>, feature |-> Some("f"),
      tracking_issue |-> Some("issue/1"), reason |-> Some(r),
      tags |-> {"a", "b"}] :
        t \in OptTargets, r \in Reasons}

\* struct Specs: every document with at most n entries in its three lists
Docs(n) ==
    UNION {
        {[target |-> t, specs |-> a, exceptions |-> b, todos |-> c] :
            t \in DocTargets,
            a \in [1..k[1] -> SpecEntries],
            b \in [1..k[2] -> ExceptionEntries],
            c \in [1..k[3] -> TodoEntries]} :
        k \in {l \in (0..n) \X (0..n) \X (0..n) : l[1] + l[2] + l[3] <= n}}

\* what std::fs::read_to_string and toml::from_str give for the file:
\* unreadable, readable but rejected by the parser (malformed or unknown
\* field), or readable and parsed to a document
DiskStates(u) ==
    {[readable |-> FALSE, parse |-> None]}
        \cup (IF u = "Spec"
              THEN {[readable |-> TRUE, parse |-> None]}
                    \cup {[readable |-> TRUE, parse |-> Some(d)] :
                            d \in Docs(MaxEntries)}
              ELSE {[readable |-> TRUE, parse |-> None]})

(***************************************************************************)
(* Collaborators outside source.rs                                         *)
(***************************************************************************)
\* AnnotationLevel::from_str, behind `level.parse()?`
ParseLevel(label) ==
    IF label \in LevelLabels THEN Ok(label) ELSE Err(Anyhow("invalid level"))

\* Format::from_str, behind `format.parse()?`
ParseFormat(label) ==
    IF label \in FormatLabels THEN Ok(label) ELSE Err(Anyhow("invalid format"))

\* AnnotationSet::insert: a set keyed by structural equality
Insert(set, a) == set \cup {a}

\* a record the pattern engine locates in a scanned file
ScannedAnnotation(f) ==
    [anno_line |-> 3, anno_column |-> 0, item_line |-> 4, item_column |-> 0,
     path |-> "", anno |-> "Citation", target |-> "x",
     quote |-> <<"A">>, comment |-> <<"A">>, manifest_dir |-> f,
     feature |-> "", tags |-> {}, tracking_issue |-> "", source |-> f,
     level |-> "AUTO", format |-> "AUTO"]

\* Pattern::extract: the records it adds to the set, or its error
ExtractOutcomes(f) ==
    {Ok({}), Ok({ScannedAnnotation(f)}), Err(Anyhow("extract"))}

(***************************************************************************)
(* The three conversions.  Rust evaluates the fields of the struct         *)
(* expression in the order written, so `target` fails before `level`, and  *)
(* `level` before `format`.                                                *)
(***************************************************************************)
\* a resolution that prefers the document default to the entry's target
OrElseDefaultFirst(o, default_target) ==
    IF default_target # None THEN default_target ELSE o

\* Option::or_else(|| default_target.as_ref().cloned())
OrElse(o, default_target) == IF o # None THEN o ELSE default_target

\* a resolution that falls back to the empty string instead of failing
OkOrDefault(o, msg) == IF o # None THEN Ok(Unwrap(o)) ELSE Ok("")

\* Option::ok_or_else(|| anyhow!("missing target"))
OkOrElse(o, msg) == IF o # None THEN Ok(Unwrap(o)) ELSE Err(Anyhow(msg))

\* Option::unwrap_or_default for String
UnwrapOrDefault(o) == IF o # None THEN Unwrap(o) ELSE ""

\* Option::unwrap_or_default for the text of `reason`
UnwrapOrDefaultText(o) == IF o # None THEN Unwrap(o) ELSE <<>>

\* Spec::into_annotation
SpecIntoAnnotation(self, source, default_target) ==
    LET target == OkOrElse(OrElse(self.target, default_target), "missing target")
        level  == IF self.level # None THEN ParseLevel(Unwrap(self.level))
                  ELSE Ok("AUTO")
        format == IF self.format # None THEN ParseFormat(Unwrap(self.format))
                  ELSE Ok("AUTO")
    IN  IF ~target.ok THEN target
        ELSE IF ~level.ok THEN level
        ELSE IF ~format.ok THEN format
        ELSE Ok([anno_line |-> 0, anno_column |-> 0,
                 item_line |-> 0, item_column |-> 0,
                 path |-> "",
                 anno |-> "Spec",
                 target |-> target.val,
                 quote |-> normalize_quote(self.quote),
                 comment |-> self.quote,
                 manifest_dir |-> source,
                 feature |-> "",
                 tags |-> {},
                 tracking_issue |-> "",
                 source |-> source,
                 level |-> level.val,
                 format |-> format.val])

\* a conversion that normalizes the reason before storing it as comment
ExceptionNormalizedReason(self, source, default_target) ==
    LET target == OkOrElse(OrElse(self.target, default_target), "missing target")
    IN  IF ~target.ok THEN target
        ELSE Ok([anno_line |-> 0, anno_column |-> 0,
                 item_line |-> 0, item_column |-> 0,
                 path |-> "",
                 anno |-> "Exception",
                 target |-> target.val,
                 quote |-> normalize_quote(self.quote),
                 comment |-> normalize_quote(self.reason),
                 manifest_dir |-> source,
                 feature |-> "",
                 tags |-> {},
                 tracking_issue |-> "",
                 source |-> source,
                 level |-> "AUTO",
                 format |-> "AUTO"])

\* Exception::into_annotation
ExceptionIntoAnnotation(self, source, default_target) ==
    LET target == OkOrElse(OrElse(self.target, default_target), "missing target")
    IN  IF ~target.ok THEN target
        ELSE Ok([anno_line |-> 0, anno_column |-> 0,
                 item_line |-> 0, item_column |-> 0,
                 path |-> "",
                 anno |-> "Exception",
                 target |-> target.val,
                 quote |-> normalize_quote(self.quote),
                 comment |-> self.reason,
                 manifest_dir |-> source,
                 feature |-> "",
                 tags |-> {},
                 tracking_issue |-> "",
                 source |-> source,
                 level |-> "AUTO",
                 format |-> "AUTO"])

\* the directory that contains path p
ParentDir(p) == IF p = "dir/b.toml" THEN "dir" ELSE ""

\* a conversion that stores the containing directory as manifest_dir
TodoParentDir(self, source, default_target) ==
    LET target == OkOrElse(OrElse(self.target, default_target), "missing target")
    IN  IF ~target.ok THEN target
        ELSE Ok([anno_line |-> 0, anno_column |-> 0,
                 item_line |-> 0, item_column |-> 0,
                 path |-> "",
                 anno |-> "Todo",
                 target |-> target.val,
                 quote |-> normalize_quote(self.quote),
                 comment |-> UnwrapOrDefaultText(self.reason),
                 manifest_dir |-> ParentDir(source),
                 source |-> source,
                 tags |-> self.tags,
                 feature |-> UnwrapOrDefault(self.feature),
                 tracking_issue |-> UnwrapOrDefault(self.tracking_issue),
                 level |-> "AUTO",
                 format |-> "AUTO"])

\* Todo::into_annotation
TodoIntoAnnotation(self, source, default_target) ==
    LET target == OkOrElse(OrElse(self.target, default_target), "missing target")
    IN  IF ~target.ok THEN target
        ELSE Ok([anno_line |-> 0, anno_column |-> 0,
                 item_line |-> 0, item_column |-> 0,
                 path |-> "",
                 anno |-> "Todo",
                 target |-> target.val,
                 quote |-> normalize_quote(self.quote),
                 comment |-> UnwrapOrDefaultText(self.reason),
                 manifest_dir |-> source,
                 source |-> source,
                 tags |-> self.tags,
                 feature |-> UnwrapOrDefault(self.feature),
                 tracking_issue |-> UnwrapOrDefault(self.tracking_issue),
                 level |-> "AUTO",
                 format |-> "AUTO"])

(***************************************************************************)
(* SourceFile::annotations, one action per statement                       *)
(***************************************************************************)
Doc == Unwrap(specs)

\* leave the function with `r`
Return(r) ==
    /\ result' = Some(r)
    /\ pc' = "done"

\* Self::Text: let text = std::fs::read_to_string(file)?;
ReadText ==
    /\ pc = "start"
    /\ unit = "Text"
    /\ IF disk.readable
       THEN pc' = "read" /\ UNCHANGED result
       ELSE Return(Err(Anyhow("io")))
    /\ UNCHANGED <<unit, file, disk, specs, idx, annotations, anno, ret>>
    /\ UNCHANGED normVars

\* pattern.extract(&text, file, &mut annotations)
\*     .with_context(|| file.display().to_string())?; Ok(annotations)
Extract ==
    /\ pc = "read"
    /\ unit = "Text"
    /\ \E r \in ExtractOutcomes(file) :
          LET c == WithContext(r, file) IN
          IF c.ok
          THEN /\ annotations' = annotations \cup c.val
               /\ Return(Ok(annotations'))
          ELSE /\ UNCHANGED annotations
               /\ Return(c)
    /\ UNCHANGED <<unit, file, disk, specs, idx, anno, ret>>
    /\ UNCHANGED normVars

\* Self::Spec: let text = std::fs::read_to_string(&file)?;
ReadSpec ==
    /\ pc = "start"
    /\ unit = "Spec"
    /\ IF disk.readable
       THEN pc' = "read" /\ UNCHANGED result
       ELSE Return(Err(Anyhow("io")))
    /\ UNCHANGED <<unit, file, disk, specs, idx, annotations, anno, ret>>
    /\ UNCHANGED normVars

\* let specs = toml::from_str::<Specs>(&text)?;
ParseToml ==
    /\ pc = "read"
    /\ unit = "Spec"
    /\ IF disk.parse # None
       THEN /\ specs' = disk.parse
            /\ pc' = "specs"
            /\ idx' = 1
            /\ UNCHANGED result
       ELSE /\ Return(Err(Anyhow("toml")))
            /\ UNCHANGED <<specs, idx>>
    /\ UNCHANGED <<unit, file, disk, annotations, anno, ret>>
    /\ UNCHANGED normVars

\* a loop body that converts the entry and drops the record
LoopBodyNoInsert(kind, e, r) ==
    /\ anno' = Some([kind |-> kind, entry |-> e])
    /\ ret' = Some(r)
    /\ IF r.ok
       THEN /\ idx' = idx + 1
            /\ UNCHANGED <<annotations, pc, result>>
       ELSE /\ Return(Err(r.err))
            /\ UNCHANGED <<annotations, idx>>
    /\ UNCHANGED <<unit, file, disk, specs>>
    /\ UNCHANGED normVars

\* one iteration of a `for anno in ...` loop whose conversion gave r:
\* annotations.insert(r?)
LoopBody(kind, e, r) ==
    /\ anno' = Some([kind |-> kind, entry |-> e])
    /\ ret' = Some(r)
    /\ IF r.ok
       THEN /\ annotations' = Insert(annotations, r.val)
            /\ idx' = idx + 1
            /\ UNCHANGED <<pc, result>>
       ELSE /\ Return(Err(r.err))
            /\ UNCHANGED <<annotations, idx>>
    /\ UNCHANGED <<unit, file, disk, specs>>
    /\ UNCHANGED normVars

\* the loop is exhausted: control falls to the next statement
LoopEnd(next) ==
    /\ pc' = next
    /\ idx' = 1
    /\ UNCHANGED <<unit, file, disk, specs, annotations, anno, ret, result>>
    /\ UNCHANGED normVars

\* for anno in specs.specs { annotations.insert(anno.into_annotation(..)?); }
InsertSpec ==
    /\ pc = "specs"
    /\ idx <= Len(Doc.specs)
    /\ LoopBody("Spec", Doc.specs[idx],
                SpecIntoAnnotation(Doc.specs[idx], file, Doc.target))

EndSpecs ==
    /\ pc = "specs"
    /\ idx > Len(Doc.specs)
    /\ LoopEnd("exceptions")

\* for anno in specs.exceptions { ... }
InsertException ==
    /\ pc = "exceptions"
    /\ idx <= Len(Doc.exceptions)
    /\ LoopBody("Exception", Doc.exceptions[idx],
                ExceptionIntoAnnotation(Doc.exceptions[idx], file, Doc.target))

EndExceptions ==
    /\ pc = "exceptions"
    /\ idx > Len(Doc.exceptions)
    /\ LoopEnd("todos")

\* for anno in specs.todos { ... }
InsertTodo ==
    /\ pc = "todos"
    /\ idx <= Len(Doc.todos)
    /\ LoopBody("Todo", Doc.todos[idx],
                TodoIntoAnnotation(Doc.todos[idx], file, Doc.target))

\* Ok(annotations)
ReturnOk ==
    /\ pc = "todos"
    /\ idx > Len(Doc.todos)
    /\ Return(Ok(annotations))
    /\ UNCHANGED <<unit, file, disk, specs, idx, annotations, anno, ret>>
    /\ UNCHANGED normVars

(***************************************************************************)
(* Specifications                                                          *)
(***************************************************************************)
\* a SourceFile of either variant, before annotations() is called
Init ==
    /\ unit \in {"Text", "Spec"}
    /\ file \in Paths
    /\ disk \in DiskStates(unit)
    /\ pc = "start"
    /\ specs = None
    /\ idx = 1
    /\ annotations = {}
    /\ anno = None
    /\ ret = None
    /\ result = None
    /\ s = <<>>
    /\ out = None
    /\ out2 = None
    /\ npc = "idle"

Next ==
    \/ ReadText
    \/ Extract
    \/ ReadSpec
    \/ ParseToml
    \/ InsertSpec
    \/ EndSpecs
    \/ InsertException
    \/ EndExceptions
    \/ InsertTodo
    \/ ReturnOk

Spec == Init /\ [][Next]_vars

\* an argument of normalize_quote, before the call
InitNorm ==
    /\ s \in Strings(MaxLen)
    /\ out = None
    /\ out2 = None
    /\ npc = "start"
    /\ unit = "Text"
    /\ file = "a.toml"
    /\ disk = [readable |-> FALSE, parse |-> None]
    /\ pc = "idle"
    /\ specs = None
    /\ idx = 1
    /\ annotations = {}
    /\ anno = None
    /\ ret = None
    /\ result = None

NextNorm ==
    \/ Normalize
    \/ Renormalize

SpecNorm == InitNorm /\ [][NextNorm]_vars

(***************************************************************************)
(* Properties                                                              *)
(***************************************************************************)
Range(f) == {f[i] : i \in DOMAIN f}

\* the entries of the three lists of document d
EntriesOf(d) == Range(d.specs) \cup Range(d.exceptions) \cup Range(d.todos)
TotalEntries(d) == Len(d.specs) + Len(d.exceptions) + Len(d.todos)

\* annotations() has returned Ok for a declarative unit
ReturnedOk ==
    /\ pc = "done"
    /\ unit = "Spec"
    /\ result # None
    /\ Unwrap(result).ok

\* the target the resolution rule gives entry e in document d
ExpectedTarget(e, d) ==
    IF e.target # None THEN Unwrap(e.target) ELSE Unwrap(d.target)

\* C1: every converted entry gets its own target when it has one and the
\* document default when it has none; the targets of the returned set are
\* exactly the targets resolved entry by entry, so an overriding entry
\* changes nothing for its siblings.
C1_TargetPerEntry ==
    /\ \A a \in anno : \A r \in ret :
          r.ok =>
            /\ a.entry.target # None
                  => r.val.target = Unwrap(a.entry.target)
            /\ (a.entry.target = None /\ Doc.target # None)
                  => r.val.target = Unwrap(Doc.target)
    /\ ReturnedOk =>
          {x.target : x \in Unwrap(result).val}
              = {ExpectedTarget(e, Doc) : e \in EntriesOf(Doc)}

C1_Witness ==
    /\ ReturnedOk
    /\ Doc.target = Some("doc.txt")
    /\ Len(Doc.specs) = 2
    /\ Doc.specs[1].target = Some("x")
    /\ Doc.specs[2].target = None
    /\ {x.target : x \in Unwrap(result).val} = {"x", "doc.txt"}

\* document d has no default target and an entry without a target
MissingTarget(d) ==
    /\ d.target = None
    /\ \E e \in EntriesOf(d) : e.target = None

\* C2: a declarative unit whose document has no top-level target and an
\* entry without its own target returns an error, which carries no
\* annotation set, wherever the entry sits.
C2_FailFast ==
    (/\ pc = "done"
     /\ unit = "Spec"
     /\ disk.parse # None
     /\ MissingTarget(Unwrap(disk.parse)))
        => /\ result # None
           /\ ~Unwrap(result).ok
           /\ "val" \notin DOMAIN Unwrap(result)

C2_Witness ==
    /\ pc = "done"
    /\ specs # None
    /\ result # None
    /\ MissingTarget(Doc)
    /\ Len(Doc.specs) = 1
    /\ Doc.specs[1].target = Some("x")
    /\ Len(Doc.todos) = 1
    /\ Doc.todos[1].target = None
    /\ annotations # {}
    /\ ~Unwrap(result).ok
    /\ Unwrap(result).err.msg = "missing target"

\* C3: every Annotation a conversion produces has a non-empty target.
C3_TargetNonEmpty ==
    \A r \in ret : r.ok => r.val.target # ""

\* C4: every failure annotations() returns carries the path of the file
\* as context.
C4_ErrorHasPath ==
    pc = "done" =>
        \A r \in result :
            ~r.ok => \E i \in DOMAIN r.err.context : r.err.context[i] = file

\* join the strings of ls with sep between neighbours
RECURSIVE Join(_, _)
Join(ls, sep) ==
    IF ls = <<>> THEN <<>>
    ELSE IF Len(ls) = 1 THEN ls[1]
    ELSE ls[1] \o sep \o Join(Tail(ls), sep)

NonEmpty(l) == l # <<>>

\* the reference result: trim every line, drop the empty ones, join
Reference(t) ==
    LET ls == Lines(t)
        trimmed == [i \in DOMAIN ls |-> Trim(ls[i])]
    IN  Join(SelectSeq(trimmed, NonEmpty), <<" ">>)

\* C5: normalize_quote(s) is the reference result; it has no leading or
\* trailing space, and a one-line input comes back trimmed with its inner
\* spaces untouched.
C5_MatchesReference ==
    \A o \in out :
        /\ o = Reference(s)
        /\ o # <<>> => (o[1] # " " /\ o[Len(o)] # " ")
        /\ (\A i \in DOMAIN s : s[i] # "\n") => o = Trim(s)

C5_Witness ==
    /\ s = <<"A", "\n", "\n", "B">>
    /\ out = Some(<<"A", " ", "B">>)

\* C6: normalizing the result of normalize_quote returns it unchanged.
C6_Idempotent ==
    \A o \in out : \A o2 \in out2 : o2 = o

C6_Witness ==
    /\ npc = "done"
    /\ s = <<" ", "A", "\n", "\n", "B">>
    /\ out2 = Some(<<"A", " ", "B">>)

\* the records the entries of document d convert to, for file f
Converted(d, f) ==
    {SpecIntoAnnotation(e, f, d.target).val : e \in Range(d.specs)}
        \cup {ExceptionIntoAnnotation(e, f, d.target).val :
                e \in Range(d.exceptions)}
        \cup {TodoIntoAnnotation(e, f, d.target).val : e \in Range(d.todos)}

\* C7 as stated: the returned set has as many records as the document has
\* entries.
C7_OneRecordPerEntry ==
    ReturnedOk => Cardinality(Unwrap(result).val) = TotalEntries(Doc)

\* C7 amended: the returned set is exactly the set of the records the
\* entries convert to, so every entry is converted and inserted, and it
\* has at most as many records as the document has entries.
C7_EveryEntryInserted ==
    ReturnedOk =>
        /\ Unwrap(result).val = Converted(Doc, file)
        /\ Cardinality(Unwrap(result).val) <= TotalEntries(Doc)

C7_Witness ==
    /\ ReturnedOk
    /\ Len(Doc.exceptions) = 2
    /\ Doc.exceptions[1] = Doc.exceptions[2]
    /\ Cardinality(Unwrap(result).val) = 1

\* C8: a Citation record has empty feature, tracking_issue and tags and
\* the raw quote as comment; an Exception record has the reason as
\* comment; a Todo record has the reason, or the empty string, as comment.
C8_KindFields ==
    /\ \A a \in anno : \A r \in ret :
          r.ok =>
            /\ a.kind = "Spec" =>
                  /\ r.val.feature = ""
                  /\ r.val.tracking_issue = ""
                  /\ r.val.tags = {}
                  /\ r.val.comment = a.entry.quote
            /\ a.kind = "Exception" => r.val.comment = a.entry.reason
            /\ a.kind = "Todo" =>
                  r.val.comment = (IF a.entry.reason = None THEN <<>>
                                   ELSE Unwrap(a.entry.reason))
    /\ ReturnedOk =>
          \A x \in Unwrap(result).val :
              x.anno = "Spec" =>
                  x.feature = "" /\ x.tracking_issue = "" /\ x.tags = {}

C8_Witness ==
    /\ ReturnedOk
    /\ \E x \in Unwrap(result).val :
          /\ x.anno = "Spec"
          /\ x.comment = <<" ", "A", "\n", "B">>
          /\ x.quote = <<"A", " ", "B">>
    /\ \E x \in Unwrap(result).val :
          /\ x.anno = "Exception"
          /\ x.comment = <<"B", " ">>

\* C9: every record returned for a declarative unit has the file's path
\* as source and as manifest_dir, zero positions and an empty path.
C9_SourceAndPlaceholders ==
    ReturnedOk =>
        \A x \in Unwrap(result).val :
            /\ x.source = file
            /\ x.manifest_dir = file
            /\ x.anno_line = 0
            /\ x.anno_column = 0
            /\ x.item_line = 0
            /\ x.item_column = 0
            /\ x.path = ""

C9_Witness ==
    /\ ReturnedOk
    /\ file = "dir/b.toml"
    /\ {x.anno : x \in Unwrap(result).val} = {"Exception", "Todo"}
    /\ \A x \in Unwrap(result).val : x.manifest_dir = "dir/b.toml"

\* C10: every Citation and Exception record a conversion produces has a
\* non-empty quote.
C10_QuoteNonEmpty ==
    \A a \in anno : \A r \in ret :
        (r.ok /\ a.kind \in {"Spec", "Exception"}) => r.val.quote # <<>>

====
